---- MODULE Spec2Model ----
(***************************************************************************)
(* A model of the thumbdrive repository: the BlockDevice variants of       *)
(* trek_usb.py (TrekDevice over a USB transport, FileBlockDevice over a    *)
(* file) and the NBD export server of nbd_server.py.                       *)
(*                                                                         *)
(* Bytes are naturals, byte strings are sequences of bytes.  The sector    *)
(* size and the chunk limit are scaled down from the source's 512 and 32   *)
(* so that a device of a few sectors still has misaligned byte ranges and  *)
(* requests of more sectors than one transaction carries; every operator   *)
(* is written in terms of SECTOR_SIZE and MAX_CHUNK_SECTORS as in the      *)
(* source.                                                                 *)
(***************************************************************************)
EXTENDS Integers, Sequences, FiniteSets, TLC

\* ------------------------------------------------------------------ bounds
SECTOR_SIZE == 2          \* trek_usb.py:58 has 512; scaled
MAX_CHUNK_SECTORS == 2    \* trek_usb.py:60 has 32; scaled
TotalSectors == 3         \* sectors the device reports (size_param1 * size_param2)
MaxTail == 1              \* bytes of an image file beyond its last whole sector

\* ------------------------------------------------------- program constants
BREQUEST_IO == 17
BMRT_READ == 66
BMRT_WRITE == 194
EP_BULK_OUT == 2
EP_BULK_IN == 130
BREQUEST_INIT == 16
BMRT_INFO == 194
INFO_RESPONSE_LEN == 31

\* ------------------------------------------------------------ byte strings
Min(a, b) == IF a < b THEN a ELSE b

Max(a, b) == IF a < b THEN b ELSE a

\* Python's s[a:b] for 0 <= a (b is clamped to the length, an empty or
\* inverted range gives the empty string).
Slice(s, a, b) ==
    LET lo == Min(a, Len(s))
        hi == Min(b, Len(s))
    IN  IF hi <= lo THEN <<>> ELSE SubSeq(s, lo + 1, hi)

\* Python's  buf[a:b] = data  on a bytearray, 0 <= a: the clamped slice is
\* replaced by data, whatever the two lengths are.
SliceAssign(buf, a, b, data) ==
    LET lo == Min(a, Len(buf))
        hi == Max(lo, Min(b, Len(buf)))
    IN  Slice(buf, 0, lo) \o data \o Slice(buf, hi, Len(buf))

Zeros(n) == [i \in 1..n |-> 0]

\* struct.pack("<I", x): four bytes, least significant first.
LE32(x) == [i \in 1..4 |-> (x \div (256 ^ (i - 1))) % 256]

\* The device's reading of four little-endian bytes.
UnLE32(b) == b[1] + 256 * b[2] + 65536 * b[3] + 16777216 * b[4]

\* ------------------------------------------------------- transport events
\* One record per transfer the transport performs:
\*   control_out: a = bmRequestType, n = bRequest, bytes = the command frame
\*   bulk_read  : a = endpoint, n = bytes requested, bytes = bytes returned
\*   bulk_write : a = endpoint, n = bytes the device took, bytes = data handed
\* ok = FALSE when the transfer raised a transport fault.
Event(ev, a, n, bytes, ok) == [ev |-> ev, a |-> a, n |-> n, bytes |-> bytes, ok |-> ok]

\* What the hardware does with the chunks of one operation: plan.at is the
\* number of the chunk (counted over the operation) that misbehaves, 0 for
\* none; plan.kind is how.
MaxXfers == 2 * ((TotalSectors + MAX_CHUNK_SECTORS - 1) \div MAX_CHUNK_SECTORS)

Plans ==
    {[at |-> 0, kind |-> "ok"]}
    \cup [at : 1..MaxXfers, kind : {"short", "ctrl_fault", "bulk_fault"}]

NoAnomaly == [at |-> 0, kind |-> "ok"]

NChunks(log) == Cardinality({i \in 1..Len(log) : log[i].ev = "control_out"})

Outcome(plan, log) == IF plan.at = NChunks(log) + 1 THEN plan.kind ELSE "ok"

\* The result of a device operation: its status ("ok" or the exception
\* raised), the bytes it returns, and the storage and the transport log
\* it leaves.
Result(st, data, store, log) == [st |-> st, data |-> data, store |-> store, log |-> log]

\* ------------------------------------------------- the device on the bus
\* The stick's side of a read transaction: it decodes the command frame
\* and sends the sectors it names, at most `length` bytes; a short
\* transfer loses the last byte.
HwBulkIn(store, cmd, length, short) ==
    LET l == UnLE32(SubSeq(cmd, 1, 4))
        n == UnLE32(SubSeq(cmd, 5, 8))
        full == Slice(store, l * SECTOR_SIZE, l * SECTOR_SIZE + Min(length, n * SECTOR_SIZE))
    IN  IF short THEN Slice(full, 0, Len(full) - 1) ELSE full

\* The bytes of `data` the stick takes in a write transaction.
HwTaken(cmd, data, short) ==
    LET n == UnLE32(SubSeq(cmd, 5, 8))
        all == Slice(data, 0, n * SECTOR_SIZE)
    IN  IF short THEN Slice(all, 0, Len(all) - 1) ELSE all

\* The stick's storage after it has taken `taken` for the frame's sectors.
HwBulkOut(store, cmd, taken) ==
    LET l == UnLE32(SubSeq(cmd, 1, 4))
    IN  [i \in 1..Len(store) |->
            IF (i - l * SECTOR_SIZE) \in 1..Len(taken)
            THEN taken[i - l * SECTOR_SIZE] ELSE store[i]]

\* ------------------------------------------------------------ TrekDevice
\* struct.pack("<II", lba, count) raises struct.error outside 0..2^32-1.
FitsU32(x) == x >= 0 /\ x \div 16777216 < 256

CanPack(lba, count) == FitsU32(lba) /\ FitsU32(count)

build_command(lba, count) == LE32(lba) \o LE32(count)

\* The stick's answer to the info query: two little-endian size
\* parameters at offsets 0x0B and 0x0F of a 31-byte record.
HwInfo(size1, size2) == Zeros(11) \o LE32(size1) \o LE32(size2) \o Zeros(12)

\* Mutant: the response is decoded without looking at its length;
\* struct.unpack_from raises struct.error when the fields are not there.
from_bytes_unchecked_length(data) ==
    IF Len(data) < 19 THEN [st |-> "struct.error", total_sectors |-> 0]
    ELSE [st |-> "ok",
          total_sectors |-> UnLE32(SubSeq(data, 12, 15)) * UnLE32(SubSeq(data, 16, 19))]

\* DeviceInfo.from_bytes(data)
from_bytes(data) ==
    IF Len(data) < INFO_RESPONSE_LEN THEN [st |-> "ValueError", total_sectors |-> 0]
    ELSE [st |-> "ok",
          total_sectors |-> UnLE32(SubSeq(data, 12, 15)) * UnLE32(SubSeq(data, 16, 19))]

\* The control-in transfer of the info query and what came of it.
InfoEvent(bytes, ok) ==
    [ev |-> "control_in", a |-> BMRT_INFO, n |-> BREQUEST_INIT, len |-> INFO_RESPONSE_LEN,
     bytes |-> bytes, ok |-> ok]

\* TrekDevice._query_device_info(transport): resp is what the stick sends,
\* fault whether the transfer raises.
Trek_query_device_info(resp, fault) ==
    IF fault
    THEN [st |-> "USBError", total_sectors |-> 0, log |-> <<InfoEvent(<<>>, FALSE)>>]
    ELSE [st |-> from_bytes(resp).st, total_sectors |-> from_bytes(resp).total_sectors,
          log |-> <<InfoEvent(resp, TRUE)>>]

\* TrekDevice.open(): found is whether UsbTransport.open finds the stick.
Trek_open(found, resp, fault) ==
    LET q == Trek_query_device_info(resp, fault)
    IN  IF ~found
        THEN [st |-> "RuntimeError", total_sectors |-> 0, transport |-> "none", log |-> <<>>]
        ELSE [st |-> q.st, total_sectors |-> q.total_sectors,
              transport |-> (IF q.st = "ok" THEN "open" ELSE "released"), log |-> q.log]

Trek_read_chunk(store, log, plan, lba, count) ==
    LET expected == count * SECTOR_SIZE
        cmd == build_command(lba, count)
        out == Outcome(plan, log)
        ctl == Event("control_out", BMRT_READ, BREQUEST_IO, cmd, out # "ctrl_fault")
        data == HwBulkIn(store, cmd, expected, out = "short")
    IN  IF ~CanPack(lba, count) THEN Result("struct.error", <<>>, store, log)
        ELSE IF out = "ctrl_fault" THEN Result("USBError", <<>>, store, Append(log, ctl))
        ELSE IF out = "bulk_fault"
        THEN Result("USBError", <<>>, store,
                    log \o <<ctl, Event("bulk_read", EP_BULK_IN, expected, <<>>, FALSE)>>)
        ELSE Result("ok", data, store,
                    log \o <<ctl, Event("bulk_read", EP_BULK_IN, expected, data, TRUE)>>)

Trek_write_chunk(store, log, plan, lba, count, data) ==
    LET cmd == build_command(lba, count)
        out == Outcome(plan, log)
        ctl == Event("control_out", BMRT_WRITE, BREQUEST_IO, cmd, out # "ctrl_fault")
        taken == HwTaken(cmd, data, out = "short")
    IN  IF ~CanPack(lba, count) THEN Result("struct.error", <<>>, store, log)
        ELSE IF out = "ctrl_fault" THEN Result("USBError", <<>>, store, Append(log, ctl))
        ELSE IF out = "bulk_fault"
        THEN Result("USBError", <<>>, store,
                    log \o <<ctl, Event("bulk_write", EP_BULK_OUT, 0, data, FALSE)>>)
        ELSE Result("ok", <<>>, HwBulkOut(store, cmd, taken),
                    log \o <<ctl, Event("bulk_write", EP_BULK_OUT, Len(taken), data, TRUE)>>)

\* Mutant: the loop asks for all the remaining sectors in one transaction.
RECURSIVE Trek_read_loop_unchunked(_, _, _, _, _, _)
Trek_read_loop_unchunked(store, log, plan, cur_lba, remaining, parts) ==
    IF remaining <= 0 THEN Result("ok", parts, store, log)
    ELSE LET chunk == remaining
             r == Trek_read_chunk(store, log, plan, cur_lba, chunk)
         IN  IF r.st # "ok" THEN r
             ELSE Trek_read_loop_unchunked(store, r.log, plan, cur_lba + chunk,
                                           remaining - chunk, parts \o r.data)

\* Mutant: the loop joins each part in front of the earlier ones.
RECURSIVE Trek_read_loop_reversed(_, _, _, _, _, _)
Trek_read_loop_reversed(store, log, plan, cur_lba, remaining, parts) ==
    IF remaining <= 0 THEN Result("ok", parts, store, log)
    ELSE LET chunk == Min(remaining, MAX_CHUNK_SECTORS)
             r == Trek_read_chunk(store, log, plan, cur_lba, chunk)
         IN  IF r.st # "ok" THEN r
             ELSE Trek_read_loop_reversed(store, r.log, plan, cur_lba + chunk,
                                          remaining - chunk, r.data \o parts)

\* The while loop of read_blocks: parts are joined as they come.
RECURSIVE Trek_read_loop(_, _, _, _, _, _)
Trek_read_loop(store, log, plan, cur_lba, remaining, parts) ==
    IF remaining <= 0 THEN Result("ok", parts, store, log)
    ELSE LET chunk == Min(remaining, MAX_CHUNK_SECTORS)
             r == Trek_read_chunk(store, log, plan, cur_lba, chunk)
         IN  IF r.st # "ok" THEN r
             ELSE Trek_read_loop(store, r.log, plan, cur_lba + chunk,
                                 remaining - chunk, parts \o r.data)

Trek_read_blocks(store, total, log, plan, lba, count) ==
    IF count <= 0 THEN Result("ok", <<>>, store, log)
    ELSE IF lba < 0 \/ lba + count > total THEN Result("ValueError:range", <<>>, store, log)
    ELSE Trek_read_loop(store, log, plan, lba, count, <<>>)

\* Mutant: a chunk that failed with a transport fault is tried once more.
RECURSIVE Trek_write_loop_retry(_, _, _, _, _, _, _)
Trek_write_loop_retry(store, log, plan, cur_lba, remaining, offset, data) ==
    IF remaining <= 0 THEN Result("ok", <<>>, store, log)
    ELSE LET chunk == Min(remaining, MAX_CHUNK_SECTORS)
             chunk_bytes == chunk * SECTOR_SIZE
             piece == Slice(data, offset, offset + chunk_bytes)
             r1 == Trek_write_chunk(store, log, plan, cur_lba, chunk, piece)
             r == IF r1.st = "USBError"
                  THEN Trek_write_chunk(r1.store, r1.log, NoAnomaly, cur_lba, chunk, piece)
                  ELSE r1
         IN  IF r.st # "ok" THEN r
             ELSE Trek_write_loop_retry(r.store, r.log, plan, cur_lba + chunk,
                                        remaining - chunk, offset + chunk_bytes, data)

\* The while loop of write_blocks.
RECURSIVE Trek_write_loop(_, _, _, _, _, _, _)
Trek_write_loop(store, log, plan, cur_lba, remaining, offset, data) ==
    IF remaining <= 0 THEN Result("ok", <<>>, store, log)
    ELSE LET chunk == Min(remaining, MAX_CHUNK_SECTORS)
             chunk_bytes == chunk * SECTOR_SIZE
             r == Trek_write_chunk(store, log, plan, cur_lba, chunk,
                                   Slice(data, offset, offset + chunk_bytes))
         IN  IF r.st # "ok" THEN r
             ELSE Trek_write_loop(r.store, r.log, plan, cur_lba + chunk,
                                  remaining - chunk, offset + chunk_bytes, data)

Trek_write_blocks(store, total, log, plan, lba, count, data) ==
    IF Len(data) # count * SECTOR_SIZE THEN Result("ValueError:length", <<>>, store, log)
    ELSE IF lba < 0 \/ lba + count > total THEN Result("ValueError:range", <<>>, store, log)
    ELSE Trek_write_loop(store, log, plan, lba, count, 0, data)

\* TrekDevice.read(offset, length)
Trek_read(store, total, log, plan, offset, length) ==
    LET first_lba == offset \div SECTOR_SIZE
        last_lba == (offset + length - 1) \div SECTOR_SIZE
        count == last_lba - first_lba + 1
        r == Trek_read_blocks(store, total, log, plan, first_lba, count)
        start == offset - first_lba * SECTOR_SIZE
    IN  IF length <= 0 THEN Result("ok", <<>>, store, log)
        ELSE IF offset < 0 \/ offset + length > SECTOR_SIZE * total
        THEN Result("ValueError:range", <<>>, store, log)
        ELSE IF r.st # "ok" THEN r
        ELSE Result("ok", Slice(r.data, start, start + length), r.store, r.log)

\* Mutant: the slow path builds the covering sectors from zeros instead
\* of reading them.
Trek_write_zero_fill(store, total, log, plan, offset, data) ==
    LET length == Len(data)
        first_lba == offset \div SECTOR_SIZE
        last_lba == (offset + length - 1) \div SECTOR_SIZE
        count == last_lba - first_lba + 1
        start_within == offset - first_lba * SECTOR_SIZE
        buf == SliceAssign(Zeros(count * SECTOR_SIZE), start_within,
                           start_within + length, data)
    IN  IF length = 0 THEN Result("ok", <<>>, store, log)
        ELSE IF offset < 0 \/ offset + length > SECTOR_SIZE * total
        THEN Result("ValueError:range", <<>>, store, log)
        ELSE Trek_write_blocks(store, total, log, plan, first_lba, count, buf)

\* TrekDevice.write(offset, data)
Trek_write(store, total, log, plan, offset, data) ==
    LET length == Len(data)
        first_lba == offset \div SECTOR_SIZE
        last_lba == (offset + length - 1) \div SECTOR_SIZE
        count == last_lba - first_lba + 1
        start_within == offset - first_lba * SECTOR_SIZE
        aligned == (start_within = 0) /\ (length % SECTOR_SIZE = 0)
        rd == Trek_read_blocks(store, total, log, plan, first_lba, count)
        buf == SliceAssign(rd.data, start_within, start_within + length, data)
    IN  IF length = 0 THEN Result("ok", <<>>, store, log)
        ELSE IF offset < 0 \/ offset + length > SECTOR_SIZE * total
        THEN Result("ValueError:range", <<>>, store, log)
        ELSE IF aligned
        THEN Trek_write_blocks(store, total, log, plan, first_lba, count, data)
        ELSE IF rd.st # "ok" THEN rd
        ELSE Trek_write_blocks(rd.store, total, rd.log, plan, first_lba, count, buf)

\* -------------------------------------------------------- FileBlockDevice
\* seek() to a negative position raises OSError; read() of a negative
\* size other than -1 raises ValueError, and read(-1) reads to the end
\* of the file.
File_read_blocks(store, lba, count) ==
    LET pos == lba * SECTOR_SIZE
        size == count * SECTOR_SIZE
    IN  IF pos < 0 THEN Result("OSError", <<>>, store, <<>>)
        ELSE IF size < -1 THEN Result("ValueError:size", <<>>, store, <<>>)
        ELSE IF size = -1 THEN Result("ok", Slice(store, pos, Len(store)), store, <<>>)
        ELSE Result("ok", Slice(store, pos, pos + size), store, <<>>)

\* Mutant: the file is positioned at byte lba instead of lba * sector_size.
File_write_blocks_seek_lba(store, lba, count, data) ==
    IF lba < 0 THEN Result("OSError", <<>>, store, <<>>)
    ELSE Result("ok", <<>>, SliceAssign(store, lba, lba + Len(data), data), <<>>)

\* write() past the end of the file extends it, and fills the gap after
\* a seek beyond the end with zero bytes.
File_write_blocks(store, lba, count, data) ==
    LET pos == lba * SECTOR_SIZE
        padded == IF pos > Len(store) THEN store \o Zeros(pos - Len(store)) ELSE store
    IN  IF pos < 0 THEN Result("OSError", <<>>, store, <<>>)
        ELSE Result("ok", <<>>, SliceAssign(padded, pos, pos + Len(data), data), <<>>)

\* ------------------------------------------- the BlockDevice in use
\* kind is the variant main() constructed; store is the stick's flash or
\* the image file's contents; total_sectors is what the device reports
\* (DeviceInfo.total_sectors, or the file size // sector_size taken when
\* the file was opened).  Both variants report SECTOR_SIZE as sector_size.
Dev_read_blocks(k, store, total, log, plan, lba, count) ==
    IF k = "trek" THEN Trek_read_blocks(store, total, log, plan, lba, count)
    ELSE [File_read_blocks(store, lba, count) EXCEPT !.log = log]

Dev_write_blocks(k, store, total, log, plan, lba, count, data) ==
    IF k = "trek" THEN Trek_write_blocks(store, total, log, plan, lba, count, data)
    ELSE [File_write_blocks(store, lba, count, data) EXCEPT !.log = log]

\* Mutant: the covering sectors are returned as they were read.
Srv_byte_read_unsliced(k, store, total, log, plan, offset, length) ==
    LET first_lba == offset \div SECTOR_SIZE
        last_lba == (offset + length - 1) \div SECTOR_SIZE
    IN  Dev_read_blocks(k, store, total, log, plan, first_lba, last_lba - first_lba + 1)

\* NBDServer._byte_read(offset, length)
Srv_byte_read(k, store, total, log, plan, offset, length) ==
    LET ss == SECTOR_SIZE
        first_lba == offset \div ss
        last_lba == (offset + length - 1) \div ss
        count == last_lba - first_lba + 1
        raw == Dev_read_blocks(k, store, total, log, plan, first_lba, count)
        start == offset - first_lba * ss
    IN  IF raw.st # "ok" THEN raw
        ELSE [raw EXCEPT !.data = Slice(raw.data, start, start + length)]

\* Mutant: every write takes the aligned path.
Srv_byte_write_no_rmw(k, store, total, log, plan, offset, data) ==
    LET first_lba == offset \div SECTOR_SIZE
        last_lba == (offset + Len(data) - 1) \div SECTOR_SIZE
    IN  Dev_write_blocks(k, store, total, log, plan, first_lba,
                         last_lba - first_lba + 1, data)

\* NBDServer._byte_write(offset, data)
Srv_byte_write(k, store, total, log, plan, offset, data) ==
    LET ss == SECTOR_SIZE
        length == Len(data)
        first_lba == offset \div ss
        last_lba == (offset + length - 1) \div ss
        count == last_lba - first_lba + 1
        start == offset - first_lba * ss
        aligned == (start = 0) /\ (length % ss = 0)
        rd == Dev_read_blocks(k, store, total, log, plan, first_lba, count)
        buf == SliceAssign(rd.data, start, start + length, data)
    IN  IF aligned
        THEN Dev_write_blocks(k, store, total, log, plan, first_lba, count, data)
        ELSE IF rd.st # "ok" THEN rd
        ELSE Dev_write_blocks(k, rd.store, total, rd.log, plan, first_lba, count, buf)

\* ------------------------------------------------------------ NBD wire
NBD_REQUEST_MAGIC == 627086611
NBD_REPLY_MAGIC == 1732535960
NBD_CMD_READ == 0
NBD_CMD_WRITE == 1
NBD_CMD_DISC == 2
NBD_CMD_FLUSH == 3
NBD_CMD_TRIM == 4
NBD_FLAG_FIXED_NEWSTYLE == 1
NBD_FLAG_NO_ZEROES == 2
NBD_FLAG_HAS_FLAGS == 1
NBD_FLAG_READ_ONLY == 2
NBD_FLAG_SEND_FLUSH == 4
NBD_REP_INFO == 3
NBD_REP_ACK == 1
NBD_EIO == 5
NBD_EINVAL == 22

\* The 64-bit magic numbers, as the eight bytes struct.pack(">Q", ...) gives:
\* "NBDMAGIC", "IHAVEOPT" and 0x0003E889045565A9.
NBD_MAGIC == <<78, 66, 68, 77, 65, 71, 73, 67>>

NBD_OPTS_MAGIC == <<73, 72, 65, 86, 69, 79, 80, 84>>

NBD_CLISERV_MAGIC == <<0, 3, 232, 137, 4, 85, 101, 169>>

\* struct.pack(">I"/">H"/">Q", x): w bytes, most significant first.  The
\* numbers of the model are below 2^31, so the bytes above the fourth are 0.
BE(x, w) == [i \in 1..w |-> IF w - i >= 4 THEN 0 ELSE (x \div (256 ^ (w - i))) % 256]

\* struct.unpack of a big-endian unsigned field.
RECURSIVE UnBE(_)
UnBE(b) == IF Len(b) = 0 THEN 0 ELSE 256 * UnBE(SubSeq(b, 1, Len(b) - 1)) + b[Len(b)]

\* x & bit, for a bit that is a power of two
HasBit(x, bit) == (x \div bit) % 2 = 1

\* x | bit
SetBit(x, bit) == IF HasBit(x, bit) THEN x ELSE x + bit

\* _recv(sock, size) on a connection that holds the bytes `wire` from
\* position pos on and is closed by the peer after them.
CanRecv(wire, pos, size) == pos + size <= Len(wire)

Recv(wire, pos, size) == Slice(wire, pos, pos + size)

\* The greeting _handshake sends first.
Greeting == NBD_MAGIC \o NBD_OPTS_MAGIC \o BE(SetBit(NBD_FLAG_FIXED_NEWSTYLE, NBD_FLAG_NO_ZEROES), 2)

\* Mutant: the read-only bit is never announced.
tx_flags_never_read_only(ro) == SetBit(NBD_FLAG_HAS_FLAGS, NBD_FLAG_SEND_FLUSH)

\* The transmission flags of the export: NBD_FLAG_HAS_FLAGS |
\* NBD_FLAG_SEND_FLUSH, and NBD_FLAG_READ_ONLY when self._read_only.
tx_flags(ro) ==
    LET f == SetBit(NBD_FLAG_HAS_FLAGS, NBD_FLAG_SEND_FLUSH)
    IN  IF ro THEN SetBit(f, NBD_FLAG_READ_ONLY) ELSE f

\* Mutant: the answer is never padded.
export_name_reply_unpadded(disk_size, ro, cflags) ==
    BE(disk_size, 8) \o BE(SetBit(NBD_FLAG_HAS_FLAGS, NBD_FLAG_SEND_FLUSH) + (IF ro THEN NBD_FLAG_READ_ONLY ELSE 0), 2)

\* The answer to NBD_OPT_EXPORT_NAME.
export_name_reply(disk_size, ro, cflags) ==
    LET resp == BE(disk_size, 8) \o BE(tx_flags(ro), 2)
    IN  IF ~HasBit(cflags, NBD_FLAG_NO_ZEROES) THEN resp \o Zeros(124) ELSE resp

\* struct.pack(">QIII", NBD_CLISERV_MAGIC, option, reply_type, length)
opt_reply_header(option, reply_type, length) ==
    NBD_CLISERV_MAGIC \o BE(option, 4) \o BE(reply_type, 4) \o BE(length, 4)

\* Mutant: the acknowledgement is sent before the info record.
go_reply_ack_first(option, disk_size, ro) ==
    LET info == BE(0, 2) \o BE(disk_size, 8)
                \o BE(SetBit(NBD_FLAG_HAS_FLAGS, NBD_FLAG_SEND_FLUSH)
                      + (IF ro THEN NBD_FLAG_READ_ONLY ELSE 0), 2)
    IN  <<opt_reply_header(option, NBD_REP_ACK, 0),
          opt_reply_header(option, NBD_REP_INFO, Len(info)) \o info>>

\* The two messages that answer NBD_OPT_GO.
go_reply(option, disk_size, ro) ==
    LET info == BE(0, 2) \o BE(disk_size, 8) \o BE(tx_flags(ro), 2)
    IN  <<opt_reply_header(option, NBD_REP_INFO, Len(info)) \o info,
          opt_reply_header(option, NBD_REP_ACK, 0)>>

\* Mutant: the reply carries cookie 0.
reply_header_no_cookie(error, cookie) == BE(NBD_REPLY_MAGIC, 4) \o BE(error, 4) \o BE(0, 8)

\* struct.pack(">IIQ", NBD_REPLY_MAGIC, error, cookie)
reply_header(error, cookie) == BE(NBD_REPLY_MAGIC, 4) \o BE(error, 4) \o BE(cookie, 8)

\* struct.unpack(">IHHQQI", header)
unpack_request(header) ==
    [magic |-> UnBE(SubSeq(header, 1, 4)),
     flags |-> UnBE(SubSeq(header, 5, 6)),
     cmd |-> UnBE(SubSeq(header, 7, 8)),
     cookie |-> UnBE(SubSeq(header, 9, 16)),
     offset |-> UnBE(SubSeq(header, 17, 24)),
     length |-> UnBE(SubSeq(header, 25, 28))]

NoReq == [magic |-> 0, flags |-> 0, cmd |-> 0, cookie |-> 0, offset |-> 0, length |-> 0]

\* What one run of _handle_request leaves: whether the loop goes on, the
\* exception that left it (if any), the request it decoded, the number of
\* bytes it took from the connection, the outcome of the device operation
\* it made ("none" if it made none), the messages it sent, the storage and
\* the transport log.
Handled(go_on, exc, rq, nread, dev, out, store, log) ==
    [go_on |-> go_on, exc |-> exc, req |-> rq, nread |-> nread, dev |-> dev, sent |-> out,
     store |-> store, usb |-> log]

\* Mutant: a failed read is answered by the header alone.
handle_read_error_no_payload(k, store, total, plan, rq) ==
    LET sector_size == SECTOR_SIZE
        rd == IF rq.offset % sector_size # 0 \/ rq.length % sector_size # 0
              THEN Srv_byte_read(k, store, total, <<>>, plan, rq.offset, rq.length)
              ELSE Dev_read_blocks(k, store, total, <<>>, plan,
                                   rq.offset \div sector_size, rq.length \div sector_size)
    IN  IF rd.st = "ok"
        THEN Handled(TRUE, "none", rq, 28, rd.st, <<reply_header(0, rq.cookie) \o rd.data>>,
                     rd.store, rd.log)
        ELSE Handled(TRUE, "none", rq, 28, rd.st, <<reply_header(NBD_EIO, rq.cookie)>>,
                     rd.store, rd.log)

\* The NBD_CMD_READ branch of _handle_request.
handle_read(k, store, total, plan, rq) ==
    LET sector_size == SECTOR_SIZE
        rd == IF rq.offset % sector_size # 0 \/ rq.length % sector_size # 0
              THEN Srv_byte_read(k, store, total, <<>>, plan, rq.offset, rq.length)
              ELSE Dev_read_blocks(k, store, total, <<>>, plan,
                                   rq.offset \div sector_size, rq.length \div sector_size)
    IN  IF rd.st = "ok"
        THEN Handled(TRUE, "none", rq, 28, rd.st, <<reply_header(0, rq.cookie) \o rd.data>>,
                     rd.store, rd.log)
        ELSE Handled(TRUE, "none", rq, 28, rd.st,
                     <<reply_header(NBD_EIO, rq.cookie) \o Zeros(rq.length)>>,
                     rd.store, rd.log)

\* The device operation of the NBD_CMD_WRITE branch.
write_op(k, store, total, plan, rq, data) ==
    LET sector_size == SECTOR_SIZE
    IN  IF rq.offset % sector_size # 0 \/ rq.length % sector_size # 0
        THEN Srv_byte_write(k, store, total, <<>>, plan, rq.offset, data)
        ELSE Dev_write_blocks(k, store, total, <<>>, plan,
                              rq.offset \div sector_size, rq.length \div sector_size, data)

\* Mutant: the read-only setting is not looked at.
handle_write_ignores_read_only(k, store, total, ro, plan, rq, wire) ==
    LET wr == write_op(k, store, total, plan, rq, Recv(wire, 28, rq.length))
    IN  IF ~CanRecv(wire, 28, rq.length)
        THEN Handled(FALSE, "ConnectionError", rq, Len(wire), "none", <<>>, store, <<>>)
        ELSE IF wr.st = "ok"
        THEN Handled(TRUE, "none", rq, 28 + rq.length, wr.st,
                     <<reply_header(0, rq.cookie)>>, wr.store, wr.log)
        ELSE Handled(TRUE, "none", rq, 28 + rq.length, wr.st,
                     <<reply_header(NBD_EIO, rq.cookie)>>, wr.store, wr.log)

\* Mutant: a read-only export rejects the write before it reads the payload.
handle_write_rejects_undrained(k, store, total, ro, plan, rq, wire) ==
    LET wr == write_op(k, store, total, plan, rq, Recv(wire, 28, rq.length))
    IN  IF ro
        THEN Handled(TRUE, "none", rq, 28, "none", <<reply_header(NBD_EINVAL, rq.cookie)>>,
                     store, <<>>)
        ELSE IF ~CanRecv(wire, 28, rq.length)
        THEN Handled(FALSE, "ConnectionError", rq, Len(wire), "none", <<>>, store, <<>>)
        ELSE IF wr.st = "ok"
        THEN Handled(TRUE, "none", rq, 28 + rq.length, wr.st,
                     <<reply_header(0, rq.cookie)>>, wr.store, wr.log)
        ELSE Handled(TRUE, "none", rq, 28 + rq.length, wr.st,
                     <<reply_header(NBD_EIO, rq.cookie)>>, wr.store, wr.log)

\* Mutant: a device fault is not caught, and ends the request loop.
handle_write_fault_fatal(k, store, total, ro, plan, rq, wire) ==
    LET wr == write_op(k, store, total, plan, rq, Recv(wire, 28, rq.length))
    IN  IF ~CanRecv(wire, 28, rq.length)
        THEN Handled(FALSE, "ConnectionError", rq, Len(wire), "none", <<>>, store, <<>>)
        ELSE IF ro
        THEN Handled(TRUE, "none", rq, 28 + rq.length, "none",
                     <<reply_header(NBD_EINVAL, rq.cookie)>>, store, <<>>)
        ELSE IF wr.st = "ok"
        THEN Handled(TRUE, "none", rq, 28 + rq.length, wr.st,
                     <<reply_header(0, rq.cookie)>>, wr.store, wr.log)
        ELSE Handled(FALSE, wr.st, rq, 28 + rq.length, wr.st, <<>>, wr.store, wr.log)

\* The NBD_CMD_WRITE branch of _handle_request: the payload is received
\* first; _recv raises ConnectionError when the peer closes before `length`
\* bytes came.
handle_write(k, store, total, ro, plan, rq, wire) ==
    LET wr == write_op(k, store, total, plan, rq, Recv(wire, 28, rq.length))
    IN  IF ~CanRecv(wire, 28, rq.length)
        THEN Handled(FALSE, "ConnectionError", rq, Len(wire), "none", <<>>, store, <<>>)
        ELSE IF ro
        THEN Handled(TRUE, "none", rq, 28 + rq.length, "none",
                     <<reply_header(NBD_EINVAL, rq.cookie)>>, store, <<>>)
        ELSE IF wr.st = "ok"
        THEN Handled(TRUE, "none", rq, 28 + rq.length, wr.st,
                     <<reply_header(0, rq.cookie)>>, wr.store, wr.log)
        ELSE Handled(TRUE, "none", rq, 28 + rq.length, wr.st,
                     <<reply_header(NBD_EIO, rq.cookie)>>, wr.store, wr.log)

\* Mutant: the disconnect is acknowledged and the loop goes on.
handle_disc_acknowledged(store, rq) ==
    Handled(TRUE, "none", rq, 28, "none", <<reply_header(0, rq.cookie)>>, store, <<>>)

\* The NBD_CMD_DISC branch: return False.
handle_disc(store, rq) == Handled(FALSE, "none", rq, 28, "none", <<>>, store, <<>>)

\* The NBD_CMD_FLUSH branch: the reply is all it does.
handle_flush(store, rq) ==
    Handled(TRUE, "none", rq, 28, "none", <<reply_header(0, rq.cookie)>>, store, <<>>)

\* Mutant: an unsupported command is answered as a success.
handle_other_accepted(store, rq) ==
    Handled(TRUE, "none", rq, 28, "none", <<reply_header(0, rq.cookie)>>, store, <<>>)

\* The else branch: an unsupported command.
handle_other(store, rq) ==
    Handled(TRUE, "none", rq, 28, "none", <<reply_header(NBD_EINVAL, rq.cookie)>>, store, <<>>)

\* Mutant: a bad magic is answered with an error and the loop goes on.
handle_bad_magic_answered(store, rq) ==
    Handled(TRUE, "none", rq, 28, "none", <<reply_header(NBD_EINVAL, rq.cookie)>>, store, <<>>)

\* magic != NBD_REQUEST_MAGIC: return False.
handle_bad_magic(store, rq) == Handled(FALSE, "none", rq, 28, "none", <<>>, store, <<>>)

\* NBDServer._handle_request on a connection holding `wire`.
handle_request(k, store, total, ro, plan, wire) ==
    LET rq == unpack_request(Recv(wire, 0, 28))
    IN  IF ~CanRecv(wire, 0, 28)
        THEN Handled(FALSE, "ConnectionError", NoReq, Len(wire), "none", <<>>, store, <<>>)
        ELSE IF rq.magic # NBD_REQUEST_MAGIC THEN handle_bad_magic(store, rq)
        ELSE IF rq.cmd = NBD_CMD_READ THEN handle_read(k, store, total, plan, rq)
        ELSE IF rq.cmd = NBD_CMD_WRITE THEN handle_write(k, store, total, ro, plan, rq, wire)
        ELSE IF rq.cmd = NBD_CMD_DISC THEN handle_disc(store, rq)
        ELSE IF rq.cmd = NBD_CMD_FLUSH THEN handle_flush(store, rq)
        ELSE handle_other(store, rq)

\* ------------------------------------------------------------------ state
VARIABLES
    kind,           \* "trek" or "file": the BlockDevice variant
    store,          \* the bytes of the backing storage
    total_sectors,  \* the device's total_sectors
    durable,        \* the bytes of the storage that are on the stable medium
    call,           \* the last call made on the device API, with its outcome
    prev,           \* the call before it
    read_only,      \* NBDServer._read_only
    open_st,        \* how main() came by its BlockDevice: "none" before, "ok" or the failure
    transport,      \* the UsbTransport: "none", "open", "released"
    open_log,       \* the transport events of TrekDevice.open
    dev_open,       \* a BlockDevice instance exists and has not been closed
    pc,             \* where the process is: "main", "serve", "accept", "Handshake",
                    \* "RequestLoop", "stopped"
    sock,           \* the client socket of the latest session: "none", "open", "closed"
    nsess,          \* connections accepted so far
    backlog,        \* connections made by clients and not yet accepted
    client_flags,   \* the client flags _handshake read in the latest session
    earlier_flags,  \* the client flags of the session before it
    step,           \* what the server did last
    opt,            \* the option code the last step decoded, 0 if it read none
    req,            \* the request header _handle_request decoded last
    sent,           \* the messages the server's last step sent, in order
    usb,            \* the transport events of the server's last step
    dev_st,         \* the outcome of the device operation of the last step, or "none"
    unread          \* bytes of the client's message the last step left on the connection

devVars == <<kind, store, total_sectors, durable>>

apiVars == <<call, prev>>

openVars == <<open_st, transport, open_log>>

srvVars == <<read_only, dev_open, pc, sock, nsess, backlog, client_flags, earlier_flags, step, opt,
             req, sent, usb, dev_st, unread>>

vars == <<kind, store, total_sectors, durable, call, prev, open_st, transport, open_log,
          read_only, dev_open, pc, sock,
          nsess, backlog, client_flags, earlier_flags, step, opt, req, sent, usb, dev_st, unread>>

capacity == SECTOR_SIZE * total_sectors

\* The image the storage holds at start: byte i of the storage is i.
Image(n) == [i \in 1..n |-> i]

\* The payload of n bytes a caller writes.
Payload(n) == [i \in 1..n |-> 100 + i]

NoCall ==
    [op |-> "none", a |-> 0, n |-> 0, data |-> <<>>, st |-> "ok", ret |-> <<>>,
     before |-> <<>>, log |-> <<>>]

\* The record of a call op(a, n, data) that started on storage `before`
\* and ended as r.
Call(op, a, n, data, before, r) ==
    [op |-> op, a |-> a, n |-> n, data |-> data, st |-> r.st, ret |-> r.data,
     before |-> before, log |-> r.log]

InitDevice ==
    /\ kind \in {"trek", "file"}
    /\ \E tail \in 0..MaxTail :
          store = Image(TotalSectors * SECTOR_SIZE + (IF kind = "file" THEN tail ELSE 0))
    /\ total_sectors = 0
    /\ durable = store
    /\ open_st = "none"
    /\ transport = "none"
    /\ open_log = <<>>

\* The process at the start of main(): no device, no server.
InitServer ==
    /\ dev_open = FALSE
    /\ pc = "main"
    /\ sock = "none"
    /\ nsess = 0
    /\ backlog = 0
    /\ client_flags = 0
    /\ earlier_flags = 0
    /\ step = "none"
    /\ opt = 0
    /\ req = NoReq
    /\ sent = <<>>
    /\ usb = <<>>
    /\ dev_st = "none"
    /\ unread = 0

InitDev ==
    /\ InitDevice
    /\ call = NoCall
    /\ prev = NoCall
    /\ read_only = FALSE
    /\ InitServer

\* The hardware variant is subject to the transport's anomalies, the file
\* variant is not.
PlansOf(k) == IF k = "trek" THEN Plans ELSE {NoAnomaly}

Lbas == -1..(total_sectors + 1)

Counts == -1..(total_sectors + 1)

Offsets == -1..(capacity + 1)

Lengths == 0..(capacity + 1)

\* A caller makes one call, and may follow a write by reading back the
\* range it wrote.
First == call.op = "none"

ReadBack(wop, a, n) ==
    /\ prev.op = "none"
    /\ call.op = wop
    /\ call.a = a
    /\ (IF wop = "write_blocks" THEN call.n ELSE Len(call.data)) = n

\* What is on the stable medium once the storage holds s: the stick's
\* flash is the medium; the bytes of a file that was written and flushed
\* (fd.flush(), line 520) are in the operating system's cache until it
\* writes them back, and no code path calls os.fsync.
Stable(k, s, d) == IF k = "trek" THEN s ELSE d

Finish(op, a, n, data, r) ==
    /\ dev_open
    /\ call' = Call(op, a, n, data, store, r)
    /\ prev' = call
    /\ store' = r.store
    /\ durable' = Stable(kind, r.store, durable)
    /\ UNCHANGED <<kind, total_sectors>>
    /\ UNCHANGED <<openVars, srvVars>>

\* device.read_blocks(lba, count)
ReadBlocks ==
    \E lba \in Lbas, count \in Counts, plan \in PlansOf(kind) :
        /\ First \/ ReadBack("write_blocks", lba, count)
        /\ Finish("read_blocks", lba, count, <<>>,
                  Dev_read_blocks(kind, store, total_sectors, <<>>, plan, lba, count))

\* device.write_blocks(lba, count, data), data of the right length or one
\* byte off
WriteBlocks ==
    \E lba \in Lbas, count \in Counts, d \in {-1, 0, 1}, plan \in PlansOf(kind) :
        /\ First
        /\ count * SECTOR_SIZE + d >= 0
        /\ LET data == Payload(count * SECTOR_SIZE + d)
           IN  Finish("write_blocks", lba, count, data,
                      Dev_write_blocks(kind, store, total_sectors, <<>>, plan, lba, count, data))

\* TrekDevice.read(offset, length)
Read ==
    \E offset \in Offsets, length \in Lengths, plan \in Plans :
        /\ kind = "trek"
        /\ First \/ ReadBack("write", offset, length)
        /\ Finish("read", offset, length, <<>>,
                  Trek_read(store, total_sectors, <<>>, plan, offset, length))

\* TrekDevice.write(offset, data)
Write ==
    \E offset \in Offsets, length \in Lengths, plan \in Plans :
        /\ kind = "trek"
        /\ First
        /\ Finish("write", offset, length, Payload(length),
                  Trek_write(store, total_sectors, <<>>, plan, offset, Payload(length)))

\* NBDServer._byte_read(offset, length); the server passes unsigned values
ByteRead ==
    \E offset \in Offsets, length \in Lengths, plan \in PlansOf(kind) :
        /\ offset >= 0
        /\ First \/ ReadBack("byte_write", offset, length)
        /\ Finish("byte_read", offset, length, <<>>,
                  Srv_byte_read(kind, store, total_sectors, <<>>, plan, offset, length))

\* NBDServer._byte_write(offset, data)
ByteWrite ==
    \E offset \in Offsets, length \in Lengths, plan \in PlansOf(kind) :
        /\ offset >= 0
        /\ First
        /\ Finish("byte_write", offset, length, Payload(length),
                  Srv_byte_write(kind, store, total_sectors, <<>>, plan, offset, Payload(length)))

\* The size parameters a stick of n sectors may report.
Geometries(n) == {g \in (1..n) \X (1..n) : g[1] * g[2] = n}

\* The lengths of the info response the stick may send.
InfoLengths == {0, INFO_RESPONSE_LEN - 1, INFO_RESPONSE_LEN}

\* main() acquires its BlockDevice: TrekDevice.open(), or FileBlockDevice
\* on an image file if there is one at the path.  An exception of
\* TrekDevice.open and the sys.exit of a missing file end the process.
OpenDevice ==
    /\ pc = "main"
    /\ \E r \in IF kind = "trek"
                THEN {Trek_open(found, SubSeq(HwInfo(g[1], g[2]), 1, len), fault) :
                        found \in BOOLEAN, fault \in BOOLEAN, len \in InfoLengths,
                        g \in Geometries(Len(store) \div SECTOR_SIZE)}
                ELSE {[st |-> "ok", total_sectors |-> Len(store) \div SECTOR_SIZE,
                       transport |-> "none", log |-> <<>>],
                      [st |-> "exit", total_sectors |-> 0, transport |-> "none", log |-> <<>>]} :
          /\ open_st' = r.st
          /\ transport' = r.transport
          /\ open_log' = r.log
          /\ total_sectors' = r.total_sectors
          /\ dev_open' = (r.st = "ok")
          /\ pc' = IF r.st = "ok" THEN "serve" ELSE "stopped"
    /\ UNCHANGED <<kind, store, durable, apiVars, read_only, sock, nsess, backlog, client_flags,
                   earlier_flags, step, opt, req, sent, usb, dev_st, unread>>

NextDev == OpenDevice \/ ReadBlocks \/ WriteBlocks \/ Read \/ Write \/ ByteRead \/ ByteWrite

SpecDev == InitDev /\ [][NextDev]_vars

\* ------------------------------------------------------------ the server
MaxSessions == 2          \* connections a run accepts

Init ==
    /\ InitDevice
    /\ call = NoCall
    /\ prev = NoCall
    /\ read_only \in BOOLEAN
    /\ InitServer

\* What clients send: the flags word with and without NBD_FLAG_C_NO_ZEROES.
ClientFlags == {NBD_FLAG_FIXED_NEWSTYLE, NBD_FLAG_FIXED_NEWSTYLE + NBD_FLAG_NO_ZEROES}

ExportName == <<101, 120, 112, 111, 114, 116>>

OptionPayloads == {<<>>, ExportName}

OtherOptions == {2, 3}

\* The byte ranges (offset, length) clients read: whole sectors, a
\* misaligned span over two sectors, the whole device (more sectors than
\* one transaction carries), and two ranges that reach beyond the capacity.
ReadRanges ==
    {<<SECTOR_SIZE, SECTOR_SIZE>>, <<1, SECTOR_SIZE>>, <<0, capacity>>,
     <<capacity, SECTOR_SIZE>>, <<capacity - 1, 2>>}

\* The byte ranges clients write: a sector, a misaligned span over two
\* sectors, and a sector beyond the capacity.
WriteRanges == {<<SECTOR_SIZE, SECTOR_SIZE>>, <<1, SECTOR_SIZE>>, <<capacity, SECTOR_SIZE>>}

\* The anomalies of the transport during a request: none, or one in the
\* first chunk.
ServerPlans(k) == {p \in PlansOf(k) : p.at <= 1}

Request(magic, cmd, cookie, offset, length) ==
    [magic |-> magic, flags |-> 0, cmd |-> cmd, cookie |-> cookie, offset |-> offset,
     length |-> length]

\* A command code the server does not know.
UnknownCmd == 9

\* Every request carries the first cookie; a read, a write and a flush
\* come with the second one too.
Requests ==
    {Request(NBD_REQUEST_MAGIC, NBD_CMD_READ, 17, r[1], r[2]) : r \in ReadRanges}
    \cup {Request(NBD_REQUEST_MAGIC, NBD_CMD_WRITE, 17, r[1], r[2]) : r \in WriteRanges}
    \cup {Request(NBD_REQUEST_MAGIC, cmd, 17, 0, 0) :
            cmd \in {NBD_CMD_DISC, NBD_CMD_FLUSH, NBD_CMD_TRIM, UnknownCmd}}
    \cup {Request(NBD_REQUEST_MAGIC, NBD_CMD_READ, 35, 1, SECTOR_SIZE),
          Request(NBD_REQUEST_MAGIC, NBD_CMD_WRITE, 35, 1, SECTOR_SIZE),
          Request(NBD_REQUEST_MAGIC, NBD_CMD_FLUSH, 35, 0, 0)}
    \cup {Request(NBD_REQUEST_MAGIC + 1, NBD_CMD_READ, 17, 0, SECTOR_SIZE)}

\* The bytes a client puts on the wire for a request: the 28-byte header
\* and, for a write, the payload.
pack_request(r) ==
    BE(r.magic, 4) \o BE(r.flags, 2) \o BE(r.cmd, 2) \o BE(r.cookie, 8)
        \o BE(r.offset, 8) \o BE(r.length, 4)
        \o (IF r.cmd = NBD_CMD_WRITE THEN Payload(r.length) ELSE <<>>)

\* What arrives on the connection for one turn of the request loop: a
\* request, or a write whose payload misses its last byte because the
\* peer closed.
Wires ==
    {pack_request(r) : r \in Requests}
    \cup {Slice(pack_request(r), 0, 28 + r.length - 1) :
            r \in {Request(NBD_REQUEST_MAGIC, NBD_CMD_WRITE, 35, 1, SECTOR_SIZE)}}

\* The bytes a client puts on the wire for an option.
pack_option(code, payload) ==
    NBD_OPTS_MAGIC \o BE(code, 4) \o BE(Len(payload), 4) \o payload

\* The option code _handshake decodes once it has the header and payload.
unpack_option(wire) == UnBE(SubSeq(Recv(wire, 0, 16), 9, 12))

\* Mutant: the payload of an option is left on the connection.
option_nread_header_only(wire) == 16

\* The bytes one turn of the option loop takes from the connection: the
\* 16-byte header and the `length` bytes of payload it announces.
option_nread(wire) == 16 + UnBE(SubSeq(Recv(wire, 0, 16), 13, 16))

\* serve() creates the listening socket, binds it and listens.
Listen ==
    /\ pc = "serve"
    /\ pc' = "accept"
    /\ UNCHANGED <<openVars, devVars, apiVars, read_only, dev_open, sock, nsess, backlog,
                   client_flags, earlier_flags, step, opt, req, sent, usb, dev_st, unread>>

\* bind() or listen() raises OSError (the port is taken): the calls are
\* before the try statement of serve(), and main() has no handler, so the
\* exception ends the process.
BindFail ==
    /\ pc = "serve"
    /\ pc' = "stopped"
    /\ UNCHANGED <<openVars, devVars, apiVars, read_only, dev_open, sock, nsess, backlog,
                   client_flags, earlier_flags, step, opt, req, sent, usb, dev_st, unread>>

\* A client connects: the connection waits in the queue of the listening
\* socket (listen(1)) until serve() accepts it.
Connect ==
    /\ pc \in {"accept", "Handshake", "RequestLoop"}
    /\ backlog = 0
    /\ nsess < MaxSessions
    /\ backlog' = 1
    /\ UNCHANGED <<openVars, devVars, apiVars, read_only, dev_open, pc, sock, nsess, client_flags,
                   earlier_flags, step, opt, req, sent, usb, dev_st, unread>>

\* Mutant: a waiting connection is accepted while a session is running.
Accept_while_serving ==
    \E cflags \in ClientFlags :
        /\ pc \in {"accept", "Handshake", "RequestLoop"}
        /\ backlog > 0
        /\ pc' = "Handshake"
        /\ sock' = "open"
        /\ nsess' = nsess + 1
        /\ backlog' = backlog - 1
        /\ client_flags' = UnBE(Recv(BE(cflags, 4), 0, 4))
        /\ earlier_flags' = client_flags
        /\ step' = "greeting"
        /\ sent' = <<Greeting>>
        /\ opt' = 0
        /\ req' = NoReq
        /\ usb' = <<>>
        /\ dev_st' = "none"
        /\ unread' = 0
        /\ UNCHANGED <<openVars, devVars, apiVars, read_only, dev_open>>

\* serve(): accept() returns a connection; _handle_client starts
\* _handshake, which sends the greeting and reads the client flags.
Accept ==
    \E cflags \in ClientFlags :
        /\ pc = "accept"
        /\ backlog > 0
        /\ pc' = "Handshake"
        /\ sock' = "open"
        /\ nsess' = nsess + 1
        /\ backlog' = backlog - 1
        /\ client_flags' = UnBE(Recv(BE(cflags, 4), 0, 4))
        /\ earlier_flags' = client_flags
        /\ step' = "greeting"
        /\ sent' = <<Greeting>>
        /\ opt' = 0
        /\ req' = NoReq
        /\ usb' = <<>>
        /\ dev_st' = "none"
        /\ unread' = 0
        /\ UNCHANGED <<openVars, devVars, apiVars, read_only, dev_open>>

\* One turn of the option loop of _handshake.
Option ==
    \E code \in {1, 7} \cup OtherOptions, payload \in OptionPayloads :
        \E option \in {unpack_option(pack_option(code, payload))} :
            /\ pc = "Handshake"
            /\ opt' = option
            /\ unread' = Len(pack_option(code, payload)) - option_nread(pack_option(code, payload))
            /\ IF option = 1
               THEN /\ sent' = <<export_name_reply(capacity, read_only, client_flags)>>
                    /\ step' = "export_name"
                    /\ pc' = "RequestLoop"
               ELSE IF option = 7
               THEN /\ sent' = go_reply(option, capacity, read_only)
                    /\ step' = "go"
                    /\ pc' = "RequestLoop"
               ELSE /\ sent' = <<opt_reply_header(option, NBD_REP_ACK, 0)>>
                    /\ step' = "ack"
                    /\ pc' = "Handshake"
            /\ UNCHANGED <<openVars, devVars, apiVars, read_only, dev_open, sock, nsess, backlog,
                           client_flags, earlier_flags, req, usb, dev_st>>

\* One turn of the request loop of _handle_client: _handle_request, and
\* the except and finally clauses when it ends the loop.
HandleRequest ==
    /\ pc = "RequestLoop"
    /\ \E wire \in Wires, plan \in ServerPlans(kind) :
        \E h \in {handle_request(kind, store, total_sectors, read_only, plan, wire)} :
            /\ req' = h.req
            /\ sent' = h.sent
            /\ store' = h.store
            /\ durable' = Stable(kind, h.store, durable)
            /\ usb' = h.usb
            /\ dev_st' = h.dev
            /\ unread' = Len(wire) - h.nread
            /\ step' = IF h.exc = "ConnectionError" THEN "lost" ELSE "request"
            /\ opt' = 0
            /\ pc' = IF h.go_on THEN "RequestLoop" ELSE "accept"
            /\ sock' = IF h.go_on THEN "open" ELSE "closed"
            /\ UNCHANGED <<openVars, kind, total_sectors, apiVars, read_only, dev_open, nsess, backlog,
                           client_flags, earlier_flags>>

\* Mutant: the session ends without closing its socket.
PeerClose_leaks_socket ==
    /\ pc \in {"Handshake", "RequestLoop"}
    /\ pc' = "accept"
    /\ sock' = sock
    /\ step' = "lost"
    /\ sent' = <<>>
    /\ opt' = 0
    /\ req' = NoReq
    /\ usb' = <<>>
    /\ dev_st' = "none"
    /\ unread' = 0
    /\ UNCHANGED <<openVars, devVars, apiVars, read_only, dev_open, nsess, backlog, client_flags,
                   earlier_flags>>

\* Mutant: the end of a session closes the device too.
PeerClose_closes_device ==
    /\ pc \in {"Handshake", "RequestLoop"}
    /\ pc' = "accept"
    /\ sock' = "closed"
    /\ dev_open' = FALSE
    /\ step' = "lost"
    /\ sent' = <<>>
    /\ opt' = 0
    /\ req' = NoReq
    /\ usb' = <<>>
    /\ dev_st' = "none"
    /\ unread' = 0
    /\ UNCHANGED <<openVars, devVars, apiVars, read_only, nsess, backlog, client_flags, earlier_flags>>

\* The peer closes the connection while the server waits for bytes:
\* _recv raises ConnectionError, _handle_client closes the socket.
PeerClose ==
    /\ pc \in {"Handshake", "RequestLoop"}
    /\ pc' = "accept"
    /\ sock' = "closed"
    /\ step' = "lost"
    /\ sent' = <<>>
    /\ opt' = 0
    /\ req' = NoReq
    /\ usb' = <<>>
    /\ dev_st' = "none"
    /\ unread' = 0
    /\ UNCHANGED <<openVars, devVars, apiVars, read_only, dev_open, nsess, backlog, client_flags,
                   earlier_flags>>

\* KeyboardInterrupt in the try block of serve(): the client socket is
\* closed by _handle_client, then serve() closes the listening socket and
\* the device; TrekDevice.close releases the transport.
Interrupt ==
    /\ pc \in {"accept", "Handshake", "RequestLoop"}
    /\ pc' = "stopped"
    /\ sock' = IF sock = "open" THEN "closed" ELSE sock
    /\ dev_open' = FALSE
    /\ transport' = IF kind = "trek" THEN "released" ELSE transport
    /\ step' = "stopped"
    /\ sent' = <<>>
    /\ opt' = 0
    /\ req' = NoReq
    /\ usb' = <<>>
    /\ dev_st' = "none"
    /\ unread' = 0
    /\ backlog' = 0
    /\ UNCHANGED <<open_st, open_log, devVars, apiVars, read_only, nsess, client_flags,
                   earlier_flags>>

\* The operating system writes the cached bytes of the image file to the
\* disk, at a time of its choosing.
Writeback ==
    /\ kind = "file"
    /\ durable # store
    /\ durable' = store
    /\ UNCHANGED <<kind, store, total_sectors, apiVars, openVars, srvVars>>

Next == OpenDevice \/ Listen \/ BindFail \/ Connect \/ Accept \/ Option \/ HandleRequest \/ PeerClose \/ Interrupt \/ Writeback

Spec == Init /\ [][Next]_vars

\* =================================================================== claims
\* Every transfer of the log completed, and in full.
Nominal(log) ==
    \A i \in 1..Len(log) :
        /\ log[i].ok
        /\ log[i].ev # "control_out" => log[i].n = Len(log[i].bytes)

IsFrame(e) == e.ev = "control_out"

\* The command frames of a log, in the order they were sent.
Frames(log) == SelectSeq(log, IsFrame)

FrameLba(e) == UnLE32(SubSeq(e.bytes, 1, 4))

FrameCount(e) == UnLE32(SubSeq(e.bytes, 5, 8))

\* The call c addresses sectors of the device only.
InBounds(c) == c.a >= 0 /\ c.n >= 0 /\ c.a + c.n <= total_sectors

\* The call c addresses bytes of the device only.
InCapacity(c, len) == c.a >= 0 /\ c.a + len <= capacity

\* C1: on either variant, write_blocks(lba, count, D) with in-bounds
\* (lba, count) and len(D) = count * sector_size, followed by
\* read_blocks(lba, count), every transfer completing in full, returns D.
BlocksRoundTrip ==
    (/\ call.op = "read_blocks"
     /\ prev.op = "write_blocks"
     /\ InBounds(prev)
     /\ Len(prev.data) = prev.n * SECTOR_SIZE
     /\ Nominal(prev.log)
     /\ Nominal(call.log))
    => (prev.st = "ok" /\ call.st = "ok" /\ call.ret = prev.data)

BlocksRoundTripWitness ==
    /\ kind = "trek"
    /\ call.op = "read_blocks"
    /\ prev.op = "write_blocks"
    /\ InBounds(prev)
    /\ prev.n > MAX_CHUNK_SECTORS
    /\ Nominal(prev.log)
    /\ Nominal(call.log)
    /\ call.ret = prev.data
    /\ call.ret # Slice(prev.before, prev.a * SECTOR_SIZE, (prev.a + prev.n) * SECTOR_SIZE)

\* C2: a byte-addressed write(offset, D) within the capacity followed by
\* read(offset, len(D)) returns D, for TrekDevice.read/write and for the
\* server's _byte_read/_byte_write, aligned or not (the transport
\* completing every transfer in full).
BytesRoundTrip ==
    (/\ \/ call.op = "read" /\ prev.op = "write"
        \/ call.op = "byte_read" /\ prev.op = "byte_write"
     /\ InCapacity(prev, Len(prev.data))
     /\ Nominal(prev.log)
     /\ Nominal(call.log))
    => (prev.st = "ok" /\ call.st = "ok" /\ call.ret = prev.data)

Misaligned(c) ==
    /\ c.a % SECTOR_SIZE # 0
    /\ (c.a + Len(c.data)) % SECTOR_SIZE # 0
    /\ Len(c.data) > SECTOR_SIZE

BytesRoundTripWitness ==
    /\ call.op = "byte_read"
    /\ prev.op = "byte_write"
    /\ InCapacity(prev, Len(prev.data))
    /\ Misaligned(prev)
    /\ Nominal(prev.log)
    /\ Nominal(call.log)
    /\ call.ret = prev.data

\* C3: a byte-addressed write(offset, D) within the capacity leaves every
\* byte of the storage outside [offset, offset + len(D)) as it was, and
\* the storage's size too (the transport completing every transfer in
\* full).
WriteFrame ==
    (/\ call.op \in {"write", "byte_write"}
     /\ InCapacity(call, Len(call.data))
     /\ Nominal(call.log))
    => /\ Len(store) = Len(call.before)
       /\ \A i \in 1..Len(store) :
             (i <= call.a \/ i > call.a + Len(call.data)) => store[i] = call.before[i]

WriteFrameWitness ==
    /\ call.op \in {"write", "byte_write"}
    /\ call.st = "ok"
    /\ InCapacity(call, Len(call.data))
    /\ Misaligned(call)
    /\ Nominal(call.log)
    /\ store # call.before

\* C4 (as claimed): every read_blocks or write_blocks call with lba < 0 or
\* lba + count > total_sectors fails, and leaves the storage as it was.
OutOfRangeFails ==
    (/\ call.op \in {"read_blocks", "write_blocks"}
     /\ (call.a < 0 \/ call.a + call.n > total_sectors))
    => (call.st # "ok" /\ store = call.before)

\* C5: the command frames of an in-bounds TrekDevice.read_blocks or
\* write_blocks of count sectors at lba are chunks (lba_i, n_i) with
\* 1 <= n_i <= MAX_CHUNK_SECTORS, lba_1 = lba and lba_(i+1) = lba_i + n_i,
\* each followed by the bulk transfer of its n_i sectors; when no transport
\* fault ends the operation they add up to count, and count >
\* MAX_CHUNK_SECTORS gives more than one.
ChunksOf(c) ==
    LET fr == Frames(c.log)
        k == Len(fr)
    IN  /\ \A i \in 1..k :
              /\ FrameCount(fr[i]) \in 1..MAX_CHUNK_SECTORS
              /\ FrameLba(fr[i]) = (IF i = 1 THEN c.a
                                    ELSE FrameLba(fr[i - 1]) + FrameCount(fr[i - 1]))
        /\ \A j \in 1..Len(c.log) :
              IF IsFrame(c.log[j])
              THEN c.log[j].ok => /\ j < Len(c.log)
                                  /\ ~IsFrame(c.log[j + 1])
              ELSE /\ j > 1
                   /\ IsFrame(c.log[j - 1])
                   /\ (IF c.op = "read_blocks" THEN c.log[j].n ELSE Len(c.log[j].bytes))
                         = FrameCount(c.log[j - 1]) * SECTOR_SIZE
        /\ c.st = "ok" =>
              /\ (IF k = 0 THEN 0 ELSE FrameLba(fr[k]) + FrameCount(fr[k]) - c.a) = c.n
              /\ c.n > MAX_CHUNK_SECTORS => k > 1

TrekBlocksCall(c) ==
    /\ kind = "trek"
    /\ c.op \in {"read_blocks", "write_blocks"}
    /\ InBounds(c)
    /\ c.op = "write_blocks" => Len(c.data) = c.n * SECTOR_SIZE

Chunking == TrekBlocksCall(call) => (ChunksOf(call) /\ call.st \in {"ok", "USBError"})

ChunkingWitness ==
    /\ TrekBlocksCall(call)
    /\ call.st = "ok"
    /\ call.n > MAX_CHUNK_SECTORS
    /\ Len(Frames(call.log)) > 1

\* C6: an in-bounds chunked TrekDevice.read_blocks(lba, count) returns the
\* contents of sectors lba .. lba+count-1 in order, as one unchunked read
\* of the range would (the transport completing every transfer in full);
\* a chunked write_blocks hands each chunk the slice of data that belongs
\* to its sectors.
ChunkData ==
    TrekBlocksCall(call) =>
      /\ (call.op = "read_blocks" /\ Nominal(call.log)) =>
            /\ call.st = "ok"
            /\ call.ret = Slice(call.before, call.a * SECTOR_SIZE,
                                (call.a + call.n) * SECTOR_SIZE)
      /\ call.op = "write_blocks" =>
            \A j \in 2..Len(call.log) :
                call.log[j].ev = "bulk_write" =>
                    call.log[j].bytes =
                        Slice(call.data,
                              (FrameLba(call.log[j - 1]) - call.a) * SECTOR_SIZE,
                              (FrameLba(call.log[j - 1]) + FrameCount(call.log[j - 1]) - call.a)
                                  * SECTOR_SIZE)

ChunkDataWitness ==
    /\ TrekBlocksCall(call)
    /\ call.op = "read_blocks"
    /\ call.st = "ok"
    /\ Nominal(call.log)
    /\ call.n > MAX_CHUNK_SECTORS
    /\ Len(call.ret) = call.n * SECTOR_SIZE

\* The fields of a reply message m, as a client decodes them.
ReplyMagic(m) == UnBE(SubSeq(m, 1, 4))

ReplyError(m) == UnBE(SubSeq(m, 5, 8))

ReplyCookie(m) == UnBE(SubSeq(m, 9, 16))

ReplyPayload(m) == SubSeq(m, 17, Len(m))

\* The server has just answered a request that had the request magic.
Answered == step = "request" /\ req.magic = NBD_REQUEST_MAGIC

\* C7: the export-name option (code 1) is answered, whatever the client
\* flags and the option's payload, by one message that starts with the
\* 8-byte capacity sector_size * total_sectors and the 16-bit transmission
\* flags with has-flags (bit 0) and send-flush (bit 2) set and read-only
\* (bit 1) set iff the server is read-only; the session is then in
\* RequestLoop with its socket open.
ExportNameReply ==
    step = "export_name" =>
        /\ Len(sent) = 1
        /\ Len(sent[1]) >= 10
        /\ UnBE(SubSeq(sent[1], 1, 8)) = SECTOR_SIZE * total_sectors
        /\ HasBit(UnBE(SubSeq(sent[1], 9, 10)), 1)
        /\ HasBit(UnBE(SubSeq(sent[1], 9, 10)), 4)
        /\ HasBit(UnBE(SubSeq(sent[1], 9, 10)), 2) <=> read_only
        /\ pc = "RequestLoop"
        /\ sock = "open"

ExportNameReplyWitness ==
    /\ step = "export_name"
    /\ read_only
    /\ kind = "file"
    /\ Len(store) > SECTOR_SIZE * total_sectors
    /\ UnBE(SubSeq(sent[1], 1, 8)) = SECTOR_SIZE * total_sectors
    /\ UnBE(SubSeq(sent[1], 9, 10)) = 7
    /\ pc = "RequestLoop"

\* C8: the export-name reply's size and flags are followed by exactly 124
\* zero bytes iff the client flags read in this session lack the
\* no-zero-padding bit (bit 1), whatever the flags of the session before.
ZeroPadding ==
    step = "export_name" =>
        /\ Len(sent) = 1
        /\ IF HasBit(client_flags, 2)
           THEN Len(sent[1]) = 10
           ELSE SubSeq(sent[1], 11, Len(sent[1])) = Zeros(124)

ZeroPaddingWitness ==
    /\ step = "export_name"
    /\ nsess = 2
    /\ HasBit(earlier_flags, 2)
    /\ ~HasBit(client_flags, 2)
    /\ Len(sent[1]) = 134

\* C9: a READ request (command 0) with the request magic whose range
\* [offset, offset + length) lies within the capacity is answered, the
\* device's transfers completing in full, by one message: magic
\* 0x67446698, error 0, the request's cookie, then exactly the bytes
\* stored at [offset, offset + length), aligned or not.
ReadReply ==
    (/\ Answered
     /\ req.cmd = NBD_CMD_READ
     /\ req.offset + req.length <= capacity
     /\ Nominal(usb))
    => /\ Len(sent) = 1
       /\ ReplyMagic(sent[1]) = 1732535960
       /\ ReplyError(sent[1]) = 0
       /\ ReplyCookie(sent[1]) = req.cookie
       /\ ReplyPayload(sent[1]) = Slice(store, req.offset, req.offset + req.length)
       /\ Len(ReplyPayload(sent[1])) = req.length

ReadReplyWitness ==
    /\ Answered
    /\ req.cmd = NBD_CMD_READ
    /\ kind = "trek"
    /\ req.offset % SECTOR_SIZE # 0
    /\ req.length > 0
    /\ req.offset + req.length <= capacity
    /\ Len(usb) > 0
    /\ Nominal(usb)
    /\ ReplyError(sent[1]) = 0
    /\ ReplyPayload(sent[1]) = Slice(store, req.offset, req.offset + req.length)

\* C10: a run of _handle_request on a request with the request magic
\* sends, before the next header is read, exactly one reply if the command
\* is not DISCONNECT and none if it is; the reply carries the reply magic
\* and the request's cookie, on success and on error.
CookieEcho ==
    Answered =>
        /\ Len(sent) = (IF req.cmd = NBD_CMD_DISC THEN 0 ELSE 1)
        /\ \A i \in 1..Len(sent) :
              /\ Len(sent[i]) >= 16
              /\ ReplyMagic(sent[i]) = NBD_REPLY_MAGIC
              /\ ReplyCookie(sent[i]) = req.cookie

CookieEchoWitness ==
    /\ Answered
    /\ req.cmd = NBD_CMD_WRITE
    /\ req.cookie = 35
    /\ Len(sent) = 1
    /\ ReplyError(sent[1]) = NBD_EIO
    /\ ReplyCookie(sent[1]) = 35

\* The last step made no device operation.
NoDeviceOp == dev_st = "none" /\ usb = <<>>

\* C11: a read-only server answers every WRITE request with error 22
\* (invalid argument) and makes no device operation for it; over all
\* sessions and requests no step of a read-only server changes the storage
\* or sends a write transaction to the device.
ReadOnlyExport ==
    /\ [](read_only =>
            /\ \A i \in 1..Len(usb) :
                  usb[i].ev # "bulk_write" /\ ~(IsFrame(usb[i]) /\ usb[i].a = BMRT_WRITE)
            /\ (Answered /\ req.cmd = NBD_CMD_WRITE) =>
                  /\ Len(sent) = 1
                  /\ ReplyError(sent[1]) = 22
                  /\ NoDeviceOp
                  /\ pc = "RequestLoop")
    /\ [][read_only => store' = store]_vars

ReadOnlyExportWitness ==
    /\ read_only
    /\ kind = "trek"
    /\ nsess = 2
    /\ Answered
    /\ req.cmd = NBD_CMD_WRITE
    /\ req.offset + req.length <= capacity
    /\ ReplyError(sent[1]) = 22
    /\ store = Image(Len(store))

\* C12: a handshake option whose code is neither 1 nor 7 is answered,
\* once its header and payload have been taken from the connection, by
\* exactly one record: the reply magic, the option's code, reply type ACK
\* and length 0; the session stays in Handshake with its socket open, and
\* an export-name or Go option that follows acknowledged options ends in
\* RequestLoop.
UnknownOptionAck ==
    /\ [](step = "ack" =>
            /\ opt \notin {1, 7}
            /\ Len(sent) = 1
            /\ Len(sent[1]) = 20
            /\ SubSeq(sent[1], 1, 8) = NBD_CLISERV_MAGIC
            /\ UnBE(SubSeq(sent[1], 9, 12)) = opt
            /\ UnBE(SubSeq(sent[1], 13, 16)) = 1
            /\ UnBE(SubSeq(sent[1], 17, 20)) = 0
            /\ unread = 0
            /\ pc = "Handshake"
            /\ sock = "open")
    /\ [][(pc = "Handshake" /\ pc' \in {"Handshake", "RequestLoop"} /\ opt' # 0)
            => (step' = "ack" <=> opt' \notin {1, 7})]_vars
    /\ [][(step = "ack" /\ opt' \in {1, 7}) => (pc' = "RequestLoop" /\ sock' = "open")]_vars

UnknownOptionAckWitness ==
    /\ step = "ack"
    /\ opt = 3
    /\ nsess = 2
    /\ Len(sent) = 1
    /\ UnBE(SubSeq(sent[1], 9, 12)) = 3
    /\ pc = "Handshake"

\* C13 (as claimed): every reply to a READ request carries exactly
\* `length` payload bytes after the 16-byte header, on success and on
\* failure, on both variants.
ReadReplyLength ==
    (Answered /\ req.cmd = NBD_CMD_READ) =>
        /\ Len(sent) = 1
        /\ Len(ReplyPayload(sent[1])) = req.length

\* The device operation of the last step raised an exception.
DeviceFault == dev_st \notin {"ok", "none"}

\* C14: when the device operation of a READ request raises (a range error
\* or a transport fault), the server sends one reply: the reply magic,
\* error 5 (I/O error), the request's cookie and `length` zero bytes; the
\* session stays in RequestLoop with its socket open.
ReadFault ==
    (Answered /\ req.cmd = NBD_CMD_READ /\ DeviceFault) =>
        /\ Len(sent) = 1
        /\ ReplyMagic(sent[1]) = NBD_REPLY_MAGIC
        /\ ReplyError(sent[1]) = 5
        /\ ReplyCookie(sent[1]) = req.cookie
        /\ ReplyPayload(sent[1]) = Zeros(req.length)
        /\ pc = "RequestLoop"
        /\ sock = "open"

ReadFaultWitness ==
    /\ Answered
    /\ req.cmd = NBD_CMD_READ
    /\ dev_st = "ValueError:range"
    /\ req.offset + req.length > capacity
    /\ req.length > 0
    /\ ReplyError(sent[1]) = 5
    /\ Len(sent[1]) = 16 + req.length
    /\ pc = "RequestLoop"

\* C15: a WRITE request with the request magic is answered only after the
\* server has taken its header and exactly `length` payload bytes from the
\* connection, whether the export is read-only, the write succeeds or the
\* device faults; when the peer closes before the payload is complete the
\* server sends no reply and makes no device operation, and the storage
\* is as it was.
WriteDrain ==
    /\ []((Answered /\ req.cmd = NBD_CMD_WRITE) => (unread = 0 /\ Len(sent) = 1))
    /\ []((step = "lost" /\ req.magic = NBD_REQUEST_MAGIC /\ req.cmd = NBD_CMD_WRITE)
            => (sent = <<>> /\ NoDeviceOp /\ unread = 0))
    /\ [][step' = "lost" => store' = store]_vars

WriteDrainWitness ==
    /\ Answered
    /\ req.cmd = NBD_CMD_WRITE
    /\ req.length > 0
    /\ read_only
    /\ unread = 0
    /\ ReplyError(sent[1]) = NBD_EINVAL

\* C16: on a writable export a WRITE request gets one reply with the
\* request's cookie: error 0 when the device operation succeeded, error 5
\* (I/O error) when it raised (range error, length mismatch, transport
\* fault); either way the session stays in RequestLoop with its socket
\* open.
WriteOutcome ==
    (Answered /\ req.cmd = NBD_CMD_WRITE /\ ~read_only) =>
        /\ dev_st # "none"
        /\ Len(sent) = 1
        /\ Len(sent[1]) = 16
        /\ ReplyError(sent[1]) = (IF dev_st = "ok" THEN 0 ELSE 5)
        /\ ReplyCookie(sent[1]) = req.cookie
        /\ pc = "RequestLoop"
        /\ sock = "open"

WriteOutcomeWitness ==
    /\ Answered
    /\ req.cmd = NBD_CMD_WRITE
    /\ ~read_only
    /\ dev_st = "ValueError:length"
    /\ ReplyError(sent[1]) = 5
    /\ pc = "RequestLoop"

\* C17: a DISCONNECT request (command 2) ends the request loop of its
\* session: no reply is sent, no device operation is made and the storage
\* is as it was; the session's socket is closed and the server is back at
\* accept.
Disconnect ==
    /\ []((Answered /\ req.cmd = NBD_CMD_DISC) =>
            /\ sent = <<>>
            /\ NoDeviceOp
            /\ sock = "closed"
            /\ pc = "accept")
    /\ [][(step' = "request" /\ req'.magic = NBD_REQUEST_MAGIC /\ req'.cmd = NBD_CMD_DISC)
            => store' = store]_vars

DisconnectWitness ==
    /\ Answered
    /\ req.cmd = 2
    /\ sent = <<>>
    /\ sock = "closed"
    /\ pc = "accept"
    /\ store # Image(Len(store))

\* C18: a request header whose magic is not 0x25609513 ends the
\* connection: no reply is sent for it, no device operation is made and
\* the storage is as it was, the socket is closed, and the server's next
\* step is not a request of that session.
BadMagic ==
    /\ []((step = "request" /\ req.magic # 627086611) =>
            /\ sent = <<>>
            /\ NoDeviceOp
            /\ sock = "closed"
            /\ pc = "accept")
    /\ [][(step' = "request" /\ req'.magic # 627086611) => store' = store]_vars
    /\ [][(step = "request" /\ req.magic # 627086611) => pc' # "RequestLoop"]_vars

BadMagicWitness ==
    /\ step = "request"
    /\ req.magic = 627086612
    /\ req.cmd = NBD_CMD_READ
    /\ req.offset + req.length <= capacity
    /\ sent = <<>>
    /\ sock = "closed"

\* C19: a request with the request magic whose command is none of READ,
\* WRITE, DISCONNECT and FLUSH (TRIM = 4 included) gets one reply of 16
\* bytes with error 22 (invalid argument) and the request's cookie; no
\* device operation is made, the storage is as it was, and the session
\* stays in RequestLoop.
UnknownCommand ==
    /\ []((Answered /\ req.cmd \notin {0, 1, 2, 3}) =>
            /\ Len(sent) = 1
            /\ Len(sent[1]) = 16
            /\ ReplyMagic(sent[1]) = NBD_REPLY_MAGIC
            /\ ReplyError(sent[1]) = 22
            /\ ReplyCookie(sent[1]) = req.cookie
            /\ NoDeviceOp
            /\ pc = "RequestLoop"
            /\ sock = "open")
    /\ [][(step' = "request" /\ req'.magic = NBD_REQUEST_MAGIC /\ req'.cmd \notin {0, 1, 2, 3})
            => store' = store]_vars

UnknownCommandWitness ==
    /\ Answered
    /\ req.cmd = NBD_CMD_TRIM
    /\ Len(sent) = 1
    /\ ReplyError(sent[1]) = NBD_EINVAL
    /\ pc = "RequestLoop"

\* C20 (as claimed): with the file-backed device, when the server has
\* sent the reply (error 0) to a FLUSH request, every byte written before
\* is on the stable medium.
FlushDurable ==
    (kind = "file" /\ Answered /\ req.cmd = NBD_CMD_FLUSH /\ ReplyError(sent[1]) = 0)
    => durable = store

\* C21: a session is in Handshake or RequestLoop exactly while its socket
\* is open, and there is one such socket at most; a connection that
\* arrives during a session waits, and is accepted only when serve() is
\* back at accept with the previous session's socket closed; the storage
\* changes only in the request loop of the session that is running.
OneSession ==
    /\ [](pc \in {"Handshake", "RequestLoop"} <=> sock = "open")
    /\ [][nsess' # nsess =>
            /\ nsess' = nsess + 1
            /\ pc = "accept"
            /\ sock \in {"none", "closed"}
            /\ pc' = "Handshake"]_vars
    /\ [][store' # store => (pc = "RequestLoop" /\ sock = "open" /\ nsess' = nsess)]_vars

OneSessionWitness ==
    /\ backlog = 1
    /\ nsess = 1
    /\ pc = "RequestLoop"
    /\ sock = "open"
    /\ Answered
    /\ req.cmd = NBD_CMD_WRITE
    /\ dev_st = "ok"

\* C22: whenever no session is running the client socket of the last one
\* is closed, and every step that takes a session out of Handshake and
\* RequestLoop (DISCONNECT, bad magic, the peer closing during the
\* handshake, before a header or inside a payload, the interrupt) closes
\* its socket.
SocketClosed ==
    /\ [](pc \in {"accept", "stopped"} => sock \in {"none", "closed"})
    /\ [][(sock = "open" /\ pc' \notin {"Handshake", "RequestLoop"}) => sock' = "closed"]_vars

SocketClosedWitness ==
    /\ step = "lost"
    /\ req.magic = NBD_REQUEST_MAGIC
    /\ req.cmd = NBD_CMD_WRITE
    /\ unread = 0
    /\ pc = "accept"
    /\ sock = "closed"

\* C23: the end of a session for a reason of its own (DISCONNECT, bad
\* magic, connection lost) takes the server back to accept with the
\* BlockDevice still open and the storage as the session left it; accepting
\* the next connection does not change the storage, and a READ in any
\* session returns what the storage holds then.
SessionsIndependent ==
    /\ [](pc \in {"accept", "Handshake", "RequestLoop"} => dev_open)
    /\ [][(sock = "open" /\ sock' = "closed" /\ pc' # "stopped")
            => (pc' = "accept" /\ dev_open' /\ store' = store)]_vars
    /\ [][nsess' # nsess => (store' = store /\ dev_open')]_vars
    /\ []((Answered /\ req.cmd = NBD_CMD_READ /\ req.offset + req.length <= capacity
            /\ Nominal(usb) /\ nsess > 1)
          => ReplyPayload(sent[1]) = Slice(store, req.offset, req.offset + req.length))

SessionsIndependentWitness ==
    /\ nsess = 2
    /\ step \in {"export_name", "go"}
    /\ pc = "RequestLoop"
    /\ dev_open
    /\ store # Image(Len(store))

\* C24 (as claimed): on either variant, write_blocks(lba, count, data)
\* with len(data) # count * sector_size fails with the length-mismatch
\* error and leaves the storage as it was.
LengthMismatchFails ==
    (call.op = "write_blocks" /\ Len(call.data) # call.n * SECTOR_SIZE)
    => (call.st = "ValueError:length" /\ store = call.before)

\* The fields of an option reply record m.
OptReplyOption(m) == UnBE(SubSeq(m, 9, 12))

OptReplyType(m) == UnBE(SubSeq(m, 13, 16))

OptReplyLength(m) == UnBE(SubSeq(m, 17, 20))

\* C25: the Go option (code 7) is answered by two records, in this order:
\* an info record (reply type INFO = 3) whose payload is the info type 0,
\* the 8-byte capacity and the 16-bit transmission flags with read-only
\* set iff the server is read-only, then an acknowledgement (reply type
\* ACK = 1, length 0); the session is then in RequestLoop.
GoReply ==
    step = "go" =>
        /\ Len(sent) = 2
        /\ SubSeq(sent[1], 1, 8) = NBD_CLISERV_MAGIC
        /\ OptReplyOption(sent[1]) = 7
        /\ OptReplyType(sent[1]) = 3
        /\ OptReplyLength(sent[1]) = 12
        /\ Len(sent[1]) = 32
        /\ UnBE(SubSeq(sent[1], 21, 22)) = 0
        /\ UnBE(SubSeq(sent[1], 23, 30)) = SECTOR_SIZE * total_sectors
        /\ HasBit(UnBE(SubSeq(sent[1], 31, 32)), 2) <=> read_only
        /\ HasBit(UnBE(SubSeq(sent[1], 31, 32)), 1)
        /\ SubSeq(sent[2], 1, 8) = NBD_CLISERV_MAGIC
        /\ OptReplyOption(sent[2]) = 7
        /\ OptReplyType(sent[2]) = 1
        /\ OptReplyLength(sent[2]) = 0
        /\ Len(sent[2]) = 20
        /\ pc = "RequestLoop"
        /\ sock = "open"

GoReplyWitness ==
    /\ step = "go"
    /\ opt = 7
    /\ read_only
    /\ Len(sent) = 2
    /\ OptReplyType(sent[1]) = NBD_REP_INFO
    /\ UnBE(SubSeq(sent[1], 31, 32)) = 7
    /\ OptReplyType(sent[2]) = NBD_REP_ACK
    /\ pc = "RequestLoop"

\* C29: in an in-bounds TrekDevice.read_blocks or write_blocks every chunk's
\* 8-byte command frame is sent immediately before that chunk's bulk
\* transfer and no chunk is attempted twice.  A transport fault in chunk k
\* (on its frame or on its bulk transfer) is the last transfer of the
\* operation, which fails with that fault: no later chunk is attempted
\* and nothing is retried.  The chunks of a write that came before k stay
\* written, the rest of the storage is as it was.
FailFast ==
    TrekBlocksCall(call) =>
        LET log == call.log
            fr == Frames(log)
            done == (IF fr = <<>> THEN 0 ELSE FrameLba(fr[Len(fr)]) - call.a) * SECTOR_SIZE
            from == call.a * SECTOR_SIZE
        IN  /\ \A j \in 1..Len(log) :
                  /\ IsFrame(log[j]) =>
                        /\ Len(log[j].bytes) = 8
                        /\ log[j].n = BREQUEST_IO
                        /\ log[j].a = (IF call.op = "read_blocks" THEN BMRT_READ ELSE BMRT_WRITE)
                        /\ log[j].ok => (j < Len(log) /\ ~IsFrame(log[j + 1]))
                  /\ ~IsFrame(log[j]) =>
                        /\ j > 1
                        /\ IsFrame(log[j - 1])
                        /\ log[j - 1].ok
                        /\ log[j].ev = (IF call.op = "read_blocks" THEN "bulk_read" ELSE "bulk_write")
                  /\ ~log[j].ok => j = Len(log)
            /\ \A i, k \in 1..Len(fr) : i < k => FrameLba(fr[i]) < FrameLba(fr[k])
            /\ call.st = "USBError" <=> (log # <<>> /\ ~log[Len(log)].ok)
            /\ (call.st = "USBError" /\ call.op = "write_blocks") =>
                  store = [i \in 1..Len(call.before) |->
                              IF i - from \in 1..done THEN call.data[i - from]
                              ELSE call.before[i]]
            /\ (call.st = "USBError" /\ call.op = "read_blocks") => store = call.before

FailFastWitness ==
    /\ TrekBlocksCall(call)
    /\ call.op = "write_blocks"
    /\ call.st = "USBError"
    /\ Len(Frames(call.log)) = 2
    /\ ~call.log[Len(call.log)].ok
    /\ store # call.before

\* No transfer of the log faulted, and some bulk transfer moved another
\* number of bytes than was asked for.
ShortOnly(log) ==
    /\ \A i \in 1..Len(log) : log[i].ok
    /\ \E i \in 1..Len(log) : ~IsFrame(log[i]) /\ log[i].n # Len(log[i].bytes)

\* C27: a chunk of TrekDevice.read_blocks or write_blocks whose bulk
\* transfer moves another number of bytes than count * sector_size does
\* not abort the operation, which returns normally, so the server answers
\* the request the chunk belongs to with error code 0.
ShortTransferOk ==
    (/\ Answered
     /\ kind = "trek"
     /\ req.cmd \in {NBD_CMD_READ, NBD_CMD_WRITE}
     /\ req.cmd = NBD_CMD_WRITE => ~read_only
     /\ req.length > 0
     /\ req.offset + req.length <= capacity
     /\ ShortOnly(usb))
    => (dev_st = "ok" /\ Len(sent) = 1 /\ ReplyError(sent[1]) = 0)

\* The transfer e is the geometry query.
IsInfoQuery(e) ==
    /\ e.ev = "control_in"
    /\ e.a = BMRT_INFO
    /\ e.n = BREQUEST_INIT
    /\ e.len = INFO_RESPONSE_LEN

\* C26: TrekDevice.open makes exactly one geometry query, before any other
\* transfer.  When the response has fewer than 31 bytes or the transfer
\* faults, open fails, the transport is released and there is no device
\* instance; read_blocks, write_blocks and every sector transfer happen
\* only after a geometry query that succeeded.
GeometryFirst ==
    /\ [](kind = "trek" =>
            /\ open_st = "none" =>
                  (open_log = <<>> /\ call = NoCall /\ usb = <<>> /\ transport = "none")
            /\ open_st \in {"ok", "ValueError", "USBError"} <=> open_log # <<>>
            /\ open_log # <<>> =>
                  /\ Len(open_log) = 1
                  /\ IsInfoQuery(open_log[1])
                  /\ open_st = (IF ~open_log[1].ok THEN "USBError"
                                ELSE IF Len(open_log[1].bytes) < 31 THEN "ValueError"
                                ELSE "ok")
            /\ open_st \in {"ValueError", "USBError"} =>
                  (transport = "released" /\ ~dev_open /\ pc = "stopped")
            /\ (call # NoCall \/ usb # <<>> \/ dev_open) =>
                  /\ open_st = "ok"
                  /\ transport = "open"
                  /\ total_sectors * SECTOR_SIZE = Len(store))
    /\ [][open_log' # open_log => (open_log = <<>> /\ call = NoCall /\ call' = NoCall)]_vars
    /\ [][call' # call => (kind = "trek" => (open_st = "ok" /\ open_st' = "ok"))]_vars

GeometryFirstWitness ==
    /\ kind = "trek"
    /\ open_st = "ValueError"
    /\ Len(open_log) = 1
    /\ open_log[1].ok
    /\ Len(open_log[1].bytes) = INFO_RESPONSE_LEN - 1
    /\ transport = "released"
    /\ ~dev_open
    /\ call = NoCall

\* C28: once main() has its BlockDevice, the device is closed whenever the
\* process has stopped (interrupt while accepting or serving, failure to
\* bind or listen), and only then.
DeviceReleased == open_st = "ok" => (dev_open <=> pc # "stopped")

====
